---- MODULE Spec2Model ----
(***************************************************************************)
(* har-mcp http-wrapper (src/http-wrapper/main.go).                        *)
(*                                                                         *)
(* An HTTP front end that relays JSON-RPC requests to child processes.     *)
(* HTTPWrapper.sessions maps a session id to an MCPSession (one child      *)
(* process, its pipes and a mutex).  Every HTTP request runs handleMCP or  *)
(* handleHealth on its own goroutine; every created session gets one       *)
(* cleanup goroutine that sleeps, deletes the session id from the map and  *)
(* closes the session.  The model interleaves these goroutines at the      *)
(* granularity of their accesses to shared state (the map, the mutex, the  *)
(* pipes).  Each worker goroutine serves one request.  The child process   *)
(* is outside the program: it may reply, reply with a malformed line,      *)
(* stay silent, and terminate or not.                                      *)
(***************************************************************************)
EXTENDS Integers, Sequences, FiniteSets, TLC

\* ---------------------------------------------------------------- bounds
NumWorkers == 2
MaxSessions == 2

Workers == 1..NumWorkers
Sessions == 1..MaxSessions

\* ------------------------------------------------------ program constants
NilSession == 0
NoOwner == 0
NoStatus == 0
StatusOK == 200
StatusBadRequest == 400
StatusMethodNotAllowed == 405
StatusInternalServerError == 500

MethodPost == "POST"
Methods == {"POST", "GET"}
Headers == {"", "a"}
DefaultSessionID == "default"

\* http.HandleFunc("/mcp", ...); http.HandleFunc("/health", ...)
PathMCP == "/mcp"
PathHealth == "/health"
\* rw.Write([]byte("OK"))
HealthBody == "OK"
NoBody == ""

\* the "id" member of a JSON-RPC object on the wire: no such member, the
\* literal null, a string, a number
IdAbsent == "absent"
IdNull == "null"
IdString == "\"a\""
IdNumber == "1"
RequestIDs == {IdAbsent, IdNull, IdString, IdNumber}

\* the Go value of the field ID interface{}
GoNil == "nil"
GoString == "string a"
GoFloat64 == "float64 1"

\* encoding/json decoding into ID interface{}: a missing member leaves the
\* field nil, null sets it to nil, a string gives a string, a number a float64
UnmarshalID(j) ==
  CASE j = IdAbsent -> GoNil
    [] j = IdNull -> GoNil
    [] j = IdString -> GoString
    [] j = IdNumber -> GoFloat64

\* encoding/json encoding of ID interface{} `json:"id,omitempty"`: a nil
\* interface is left out
MarshalID(v) ==
  CASE v = GoNil -> IdAbsent
    [] v = GoString -> IdString
    [] v = GoFloat64 -> IdNumber

\* sessionID := r.Header.Get("X-Session-ID"); if sessionID == "" { "default" }
SessionIDOf(h) == IF h = "" THEN DefaultSessionID ELSE h

Keys == {SessionIDOf(h) : h \in Headers}

VARIABLES
  \* --- one handleMCP goroutine per worker
  pc,        \* position of the worker in handleMCP / getOrCreateSession / SendRequest
  path,      \* r.URL.Path, by which the mux chose the handler
  method,    \* r.Method
  hdr,       \* r.Header.Get("X-Session-ID")
  body,      \* TRUE iff r.Body decodes as an MCPRequest
  reqID,     \* the "id" member of the JSON object in r.Body
  sess,      \* the local variable `session`
  status,    \* HTTP status written to rw (NoStatus while none is written)
  err,       \* which error ended the request
  resp,      \* tag of the request whose reply this worker was handed
  out,       \* body written to rw with a 200: "OK", or the "id" member of the reply
  \* --- HTTPWrapper
  sessions,  \* w.sessions : session id -> *MCPSession
  \* --- MCPSession, by session
  skey,      \* the sessionID the session was created for (captured by its closure)
  proc,      \* child process: "none", "running", "exited", "reaped"
  mu,        \* s.mu : owner of the mutex
  stdinBuf,  \* request lines written to the child and not yet consumed
  stdoutBuf, \* reply lines written by the child and not yet read
  tpc,       \* position of the session's cleanup goroutine
  \* --- history of each worker's request / of each session
  lookups,   \* sessions.Load calls made by the request
  loaded,    \* the session sessions.Load returned (NilSession on a miss)
  attempts,  \* NewMCPSession calls made by the request
  spawned,   \* TRUE iff the request started a child process
  writes,    \* request lines the request wrote to a child
  armCount,  \* cleanup goroutines started for the session
  deletes,   \* sessions.Delete calls made by the session's cleanup goroutine
  closeCalls,\* Close calls on the session
  evictedAt  \* sessions created so far when the session's key was deleted

wvars == <<pc, path, method, hdr, body, reqID, sess, status, err, resp, out>>
svars == <<skey, proc, mu, stdinBuf, stdoutBuf, tpc>>
hvars == <<lookups, loaded, attempts, spawned, writes, armCount, deletes,
           closeCalls, evictedAt>>
vars == <<wvars, sessions, svars, hvars>>

\* --------------------------------------------------------------- helpers
sessionID(w) == SessionIDOf(hdr[w])

\* Close has closed s.stdin / s.stdout
StdinClosed(s) == tpc[s] \in {"close_stdout", "wait", "done"}

\* a Close that leaves s.stdout open
StdoutNeverClosed(s) == FALSE

StdoutClosed(s) == tpc[s] \in {"wait", "done"}

Created(s) == proc[s] # "none"
NextSession == Cardinality({s \in Sessions : Created(s)}) + 1

\* The state after NewHTTPWrapper, with the id that the body of each worker's
\* request will carry.
Start(ids) ==
  /\ pc = [w \in Workers |-> "idle"]
  /\ path = [w \in Workers |-> PathMCP]
  /\ method = [w \in Workers |-> MethodPost]
  /\ hdr = [w \in Workers |-> ""]
  /\ body = [w \in Workers |-> TRUE]
  /\ reqID = ids
  /\ out = [w \in Workers |-> NoBody]
  /\ sess = [w \in Workers |-> NilSession]
  /\ status = [w \in Workers |-> NoStatus]
  /\ err = [w \in Workers |-> "none"]
  /\ resp = [w \in Workers |-> 0]
  /\ sessions = [k \in Keys |-> NilSession]
  /\ skey = [s \in Sessions |-> ""]
  /\ proc = [s \in Sessions |-> "none"]
  /\ mu = [s \in Sessions |-> NoOwner]
  /\ stdinBuf = [s \in Sessions |-> <<>>]
  /\ stdoutBuf = [s \in Sessions |-> <<>>]
  /\ tpc = [s \in Sessions |-> "none"]
  /\ lookups = [w \in Workers |-> 0]
  /\ loaded = [w \in Workers |-> NilSession]
  /\ attempts = [w \in Workers |-> 0]
  /\ spawned = [w \in Workers |-> FALSE]
  /\ writes = [w \in Workers |-> 0]
  /\ armCount = [s \in Sessions |-> 0]
  /\ deletes = [s \in Sessions |-> 0]
  /\ closeCalls = [s \in Sessions |-> 0]
  /\ evictedAt = [s \in Sessions |-> 0]

\* No step of the program reads the id of a request, which is only copied
\* along.  Init gives every request a body without an id; RelayInit lets
\* every request carry any of the id shapes.
Init == Start([w \in Workers |-> IdAbsent])

RelayInit == \E ids \in [Workers -> RequestIDs] : Start(ids)

\* ------------------------------------------------------------ handleMCP
\* A request becomes visible to the other goroutines with its first access
\* to shared state, so its arrival is one step with that access, and the
\* decoding of its body (which reads only the request) is one step with the
\* access that precedes it.

\* the server starts a goroutine that runs handleMCP on a new request
Accept(w, m, h, b) ==
  /\ pc[w] = "idle"
  /\ path' = [path EXCEPT ![w] = PathMCP]
  /\ method' = [method EXCEPT ![w] = m]
  /\ hdr' = [hdr EXCEPT ![w] = h]
  /\ body' = [body EXCEPT ![w] = b]

\* http.Error(rw, ..., code); return
Respond(w, code, e) ==
  /\ pc' = [pc EXCEPT ![w] = "done"]
  /\ status' = [status EXCEPT ![w] = code]
  /\ err' = [err EXCEPT ![w] = e]

\* the handler goes on to position p, nothing written to rw yet
Continue(w, p) ==
  /\ pc' = [pc EXCEPT ![w] = p]
  /\ status' = [status EXCEPT ![w] = NoStatus]
  /\ err' = [err EXCEPT ![w] = "none"]

\* a method check that lets every method through
IsPostAny(m) == TRUE

\* r.Method != http.MethodPost
IsPost(m) == m = MethodPost

\* if r.Method != http.MethodPost { http.Error(405); return }
MethodNotAllowed(w, m, h, b) ==
  /\ ~IsPost(m)
  /\ Accept(w, m, h, b)
  /\ Respond(w, StatusMethodNotAllowed, "method")
  /\ UNCHANGED <<reqID, sess, resp, out, sessions, svars, hvars>>

\* json.NewDecoder(r.Body).Decode(&req): 400 on a body that is not valid JSON,
\* else on to session.SendRequest(req)
Decode(w, b) ==
  IF b THEN Continue(w, "lock")
       ELSE Respond(w, StatusBadRequest, "body")

\* getOrCreateSession: w.sessions.Load(sessionID); on a hit return the session
Load(w, m, h, b) ==
  LET val == sessions[SessionIDOf(h)] IN
  /\ IsPost(m)
  /\ Accept(w, m, h, b)
  /\ lookups' = [lookups EXCEPT ![w] = 1]
  /\ loaded' = [loaded EXCEPT ![w] = val]
  /\ sess' = [sess EXCEPT ![w] = val]
  /\ IF val # NilSession
       THEN Decode(w, b)
       ELSE Continue(w, "new")
  /\ UNCHANGED <<reqID, resp, out, sessions, svars, attempts, spawned, writes, armCount,
                 deletes, closeCalls, evictedAt>>

\* NewMCPSession succeeds: cmd.Start() started the child, pipes are open
StartOK(w) ==
  LET s == NextSession IN
  /\ pc[w] = "new"
  /\ s \in Sessions
  /\ proc' = [proc EXCEPT ![s] = "running"]
  /\ skey' = [skey EXCEPT ![s] = sessionID(w)]
  /\ sess' = [sess EXCEPT ![w] = s]
  /\ attempts' = [attempts EXCEPT ![w] = @ + 1]
  /\ spawned' = [spawned EXCEPT ![w] = TRUE]
  /\ pc' = [pc EXCEPT ![w] = "store"]
  /\ UNCHANGED <<path, method, hdr, body, reqID, status, err, resp, out, sessions, mu, stdinBuf,
                 stdoutBuf, tpc, lookups, loaded, writes, armCount, deletes,
                 closeCalls, evictedAt>>

\* a getOrCreateSession that stores the session before it looks at the error
StartFailRegisters(w) ==
  /\ pc[w] = "new"
  /\ attempts' = [attempts EXCEPT ![w] = @ + 1]
  /\ sessions' = [sessions EXCEPT ![sessionID(w)] = NextSession]
  /\ Respond(w, StatusInternalServerError, "start")
  /\ UNCHANGED <<path, method, hdr, body, reqID, sess, resp, out, svars, lookups, loaded,
                 spawned, writes, armCount, deletes, closeCalls, evictedAt>>

\* a getOrCreateSession that calls NewMCPSession again when it has failed
StartFailRetries(w) ==
  /\ pc[w] = "new"
  /\ attempts' = [attempts EXCEPT ![w] = @ + 1]
  /\ UNCHANGED <<wvars, sessions, svars, lookups, loaded, spawned, writes,
                 armCount, deletes, closeCalls, evictedAt>>

\* NewMCPSession fails: getOrCreateSession returns nil, err; handleMCP answers 500
StartFail(w) ==
  /\ pc[w] = "new"
  /\ attempts' = [attempts EXCEPT ![w] = @ + 1]
  /\ Respond(w, StatusInternalServerError, "start")
  /\ UNCHANGED <<path, method, hdr, body, reqID, sess, resp, out, sessions, svars, lookups, loaded,
                 spawned, writes, armCount, deletes, closeCalls, evictedAt>>

\* go func() { time.Sleep(30 * time.Minute); ... }()
Arm(s) ==
  /\ tpc' = [tpc EXCEPT ![s] = "sleep"]
  /\ armCount' = [armCount EXCEPT ![s] = @ + 1]

\* w.sessions.Store(sessionID, session); start the cleanup goroutine;
\* return session, nil
Store(w) ==
  /\ pc[w] = "store"
  /\ sessions' = [sessions EXCEPT ![sessionID(w)] = sess[w]]
  /\ Arm(sess[w])
  /\ Decode(w, body[w])
  /\ UNCHANGED <<path, method, hdr, body, reqID, sess, resp, out, skey, proc, mu, stdinBuf,
                 stdoutBuf, lookups, loaded, attempts, spawned, writes, deletes,
                 closeCalls, evictedAt>>

\* ---------------------------------------------------------- SendRequest
\* a Lock that does not wait for the owner
CanLockAlways(s) == TRUE

\* s.mu.Lock() returns only when no goroutine holds the mutex
CanLock(s) == mu[s] = NoOwner

Lock(w) ==
  /\ pc[w] = "lock"
  /\ CanLock(sess[w])
  /\ mu' = [mu EXCEPT ![sess[w]] = w]
  /\ pc' = [pc EXCEPT ![w] = "write"]
  /\ UNCHANGED <<path, method, hdr, body, reqID, sess, status, err, resp, out, sessions, skey, proc,
                 stdinBuf, stdoutBuf, tpc, hvars>>

\* an Unlock written before each return, and forgotten on the decode failure
UnlockExceptDecode(s, e) ==
  mu' = IF e = "decode" THEN mu ELSE [mu EXCEPT ![s] = NoOwner]

\* defer s.mu.Unlock(), run by every return of SendRequest
Unlock(s, e) == mu' = [mu EXCEPT ![s] = NoOwner]

\* a handleMCP that does not look at the error SendRequest returned
ReturnIgnoringError(w, code, e, r) ==
  /\ Unlock(sess[w], e)
  /\ Respond(w, StatusOK, e)
  /\ resp' = [resp EXCEPT ![w] = r]

\* SendRequest returns (with its deferred Unlock) and handleMCP writes the
\* response: 200 with the decoded reply, or 500 "MCP request failed"
Return(w, code, e, r) ==
  /\ Unlock(sess[w], e)
  /\ Respond(w, code, e)
  /\ resp' = [resp EXCEPT ![w] = r]

\* s.stdin.Write(reqBytes) fails once Close closed stdin or the child is gone
WriteFails(s) == StdinClosed(s) \/ proc[s] # "running"

\* var req MCPRequest; json.NewDecoder(r.Body).Decode(&req) in handleMCP, then
\* reqBytes, err := json.Marshal(req): the line written to the child
RequestLine(w) == [from |-> w, id |-> MarshalID(UnmarshalID(reqID[w]))]

\* json.Unmarshal(respBytes, &resp) in SendRequest, then
\* json.NewEncoder(rw).Encode(resp) in handleMCP: the body written to rw
ResponseBody(line) == MarshalID(UnmarshalID(line.id))

Write(w) ==
  LET s == sess[w] IN
  /\ pc[w] = "write"
  /\ IF WriteFails(s)
       THEN /\ Return(w, StatusInternalServerError, "write", 0)
            /\ UNCHANGED <<stdinBuf, writes, out>>
       ELSE /\ stdinBuf' = [stdinBuf EXCEPT ![s] = Append(@, RequestLine(w))]
            /\ writes' = [writes EXCEPT ![w] = @ + 1]
            /\ pc' = [pc EXCEPT ![w] = "read"]
            /\ UNCHANGED <<status, err, resp, out, mu>>
  /\ UNCHANGED <<path, method, hdr, body, reqID, sess, sessions, skey, proc, stdoutBuf, tpc,
                 lookups, loaded, attempts, spawned, armCount, deletes,
                 closeCalls, evictedAt>>

\* s.reader.ReadBytes('\n') followed by json.Unmarshal of the line.
\* Blocks while stdout is open, the child runs and no reply line is there.
Read(w) ==
  LET s == sess[w] IN
  /\ pc[w] = "read"
  /\ IF StdoutClosed(s)
       THEN /\ Return(w, StatusInternalServerError, "read", 0)
            /\ UNCHANGED <<stdoutBuf, out>>
       ELSE IF stdoutBuf[s] # <<>>
         THEN /\ stdoutBuf' = [stdoutBuf EXCEPT ![s] = Tail(@)]
              /\ IF Head(stdoutBuf[s]).ok
                   THEN /\ Return(w, StatusOK, "none", Head(stdoutBuf[s]).from)
                        /\ out' = [out EXCEPT ![w] = ResponseBody(Head(stdoutBuf[s]))]
                   ELSE /\ Return(w, StatusInternalServerError, "decode", 0)
                        /\ UNCHANGED out
         ELSE /\ proc[s] # "running"
              /\ Return(w, StatusInternalServerError, "read", 0)
              /\ UNCHANGED <<stdoutBuf, out>>
  /\ UNCHANGED <<path, method, hdr, body, reqID, sess, sessions, skey, proc, stdinBuf, tpc,
                 lookups, loaded, attempts, spawned, writes, armCount, deletes,
                 closeCalls, evictedAt>>

\* ----------------------------------------------------------- handleHealth
\* rw.WriteHeader(http.StatusOK); rw.Write([]byte("OK")): the handler reads
\* nothing of the request and nothing of the wrapper
handleHealth(w) ==
  /\ pc[w] = "idle"
  /\ path' = [path EXCEPT ![w] = PathHealth]
  /\ pc' = [pc EXCEPT ![w] = "done"]
  /\ status' = [status EXCEPT ![w] = StatusOK]
  /\ out' = [out EXCEPT ![w] = HealthBody]
  /\ UNCHANGED <<method, hdr, body, reqID, sess, err, resp, sessions, svars, hvars>>

\* ------------------------------------------------------ the child process
\* har-mcp consumes one request line and answers with one line, which is
\* either a JSON reply to that request (ok), which carries the id member of
\* the request as it came, or not valid JSON
ChildReply(s, ok) ==
  /\ proc[s] = "running"
  /\ stdinBuf[s] # <<>>
  /\ ~StdoutClosed(s)
  /\ stdinBuf' = [stdinBuf EXCEPT ![s] = Tail(@)]
  /\ stdoutBuf' = [stdoutBuf EXCEPT ![s] = Append(@, [from |-> Head(stdinBuf[s]).from, id |-> Head(stdinBuf[s]).id, ok |-> ok])]
  /\ UNCHANGED <<wvars, sessions, skey, proc, mu, tpc, hvars>>

\* the child terminates (on its own, or after its stdin reached EOF)
ChildExit(s) ==
  /\ proc[s] = "running"
  /\ proc' = [proc EXCEPT ![s] = "exited"]
  /\ UNCHANGED <<wvars, sessions, skey, mu, stdinBuf, stdoutBuf, tpc, hvars>>

\* ------------------------------------- cleanup goroutine and MCPSession.Close
\* a cleanup goroutine that closes the session without deleting its key
TimerFireNoDelete(s) ==
  /\ tpc[s] = "sleep"
  /\ tpc' = [tpc EXCEPT ![s] = "close_stdin"]
  /\ UNCHANGED <<wvars, sessions, skey, proc, mu, stdinBuf, stdoutBuf, hvars>>

\* time.Sleep(30 * time.Minute) returns; w.sessions.Delete(sessionID)
TimerFire(s) ==
  /\ tpc[s] = "sleep"
  /\ sessions' = [sessions EXCEPT ![skey[s]] = NilSession]
  /\ deletes' = [deletes EXCEPT ![s] = @ + 1]
  /\ evictedAt' = [evictedAt EXCEPT ![s] = NextSession - 1]
  /\ tpc' = [tpc EXCEPT ![s] = "close_stdin"]
  /\ UNCHANGED <<wvars, skey, proc, mu, stdinBuf, stdoutBuf, lookups, loaded,
                 attempts, spawned, writes, armCount, closeCalls>>

\* session.Close(): s.stdin.Close()
CloseStdin(s) ==
  /\ tpc[s] = "close_stdin"
  /\ closeCalls' = [closeCalls EXCEPT ![s] = @ + 1]
  /\ tpc' = [tpc EXCEPT ![s] = "close_stdout"]
  /\ UNCHANGED <<wvars, sessions, skey, proc, mu, stdinBuf, stdoutBuf, lookups,
                 loaded, attempts, spawned, writes, armCount, deletes, evictedAt>>

\* s.stdout.Close(); s.stderr.Close()
\* (stderr feeds only the logging goroutine, which shares nothing)
CloseStdout(s) ==
  /\ tpc[s] = "close_stdout"
  /\ tpc' = [tpc EXCEPT ![s] = "wait"]
  /\ UNCHANGED <<wvars, sessions, skey, proc, mu, stdinBuf, stdoutBuf, hvars>>

\* a cleanup goroutine that loops: after Close has returned it sleeps again
WaitThenSleepAgain(s) ==
  /\ tpc[s] = "wait"
  /\ proc[s] = "exited"
  /\ proc' = [proc EXCEPT ![s] = "reaped"]
  /\ tpc' = [tpc EXCEPT ![s] = "sleep"]
  /\ UNCHANGED <<wvars, sessions, skey, mu, stdinBuf, stdoutBuf, hvars>>

\* return s.cmd.Wait(): returns once the child has exited, and reaps it
Wait(s) ==
  /\ tpc[s] = "wait"
  /\ proc[s] = "exited"
  /\ proc' = [proc EXCEPT ![s] = "reaped"]
  /\ tpc' = [tpc EXCEPT ![s] = "done"]
  /\ UNCHANGED <<wvars, sessions, skey, mu, stdinBuf, stdoutBuf, hvars>>

\* ------------------------------------------------------------------ spec
Next ==
  \/ \E w \in Workers, m \in Methods, h \in Headers, b \in BOOLEAN : MethodNotAllowed(w, m, h, b)
  \/ \E w \in Workers, m \in Methods, h \in Headers, b \in BOOLEAN : Load(w, m, h, b)
  \/ \E w \in Workers : StartOK(w)
  \/ \E w \in Workers : StartFail(w)
  \/ \E w \in Workers : Store(w)
  \/ \E w \in Workers : Lock(w)
  \/ \E w \in Workers : Write(w)
  \/ \E w \in Workers : Read(w)
  \/ \E w \in Workers : handleHealth(w)
  \/ \E s \in Sessions, ok \in BOOLEAN : ChildReply(s, ok)
  \/ \E s \in Sessions : ChildExit(s)
  \/ \E s \in Sessions : TimerFire(s)
  \/ \E s \in Sessions : CloseStdin(s)
  \/ \E s \in Sessions : CloseStdout(s)
  \/ \E s \in Sessions : Wait(s)

Spec == Init /\ [][Next]_vars

\* the same program, with requests of every id shape
RelaySpec == RelayInit /\ [][Next]_vars

\* The cleanup goroutine of a session is an ordinary goroutine: once its
\* sleep is over the scheduler runs it, up to the cmd.Wait() that waits for
\* the child.
FairSpec ==
  /\ Spec
  /\ \A s \in Sessions :
       WF_vars(TimerFire(s)) /\ WF_vars(CloseStdin(s)) /\ WF_vars(CloseStdout(s))

\* Every goroutine that can run is run: the cleanup goroutines as in
\* FairSpec, cmd.Wait() returns once the child has terminated, and a worker
\* that created a session stores it, a worker whose Lock can succeed gets
\* the mutex, and a worker inside SendRequest does its write and its read
\* when they can complete.  Nothing is assumed about the child.
LiveSpec ==
  /\ FairSpec
  /\ \A s \in Sessions : WF_vars(Wait(s))
  /\ \A w \in Workers :
       WF_vars(Store(w)) /\ WF_vars(Lock(w)) /\ WF_vars(Write(w)) /\ WF_vars(Read(w))

\* ------------------------------------------------------------ vocabulary
\* the session's cleanup goroutine has not deleted the session's key yet
Unevicted(s) == Created(s) /\ deletes[s] = 0

\* the worker is inside SendRequest, between Lock and the deferred Unlock
InExchange(w) == pc[w] \in {"write", "read"}

\* the worker has written its request line and has not read a reply line yet
InFlight(w) == pc[w] = "read"

\* the worker's current request ended with a failed exchange
ExchangeFailed(w) == pc[w] = "done" /\ err[w] \in {"write", "read", "decode"}

\* ------------------------------------------------------------------ C1
\* C1: concurrent getOrCreateSession calls for one unseen key create exactly
\* one session and start one child, and all callers get that session: at any
\* moment at most one session whose key has not been evicted exists per key,
\* and two requests of one key that hold unevicted sessions hold the same one.
C1_OneSessionPerUnseenKey ==
  /\ \A k \in Keys :
       Cardinality({s \in Sessions : Unevicted(s) /\ skey[s] = k}) <= 1
  /\ \A w1, w2 \in Workers :
       ( /\ sess[w1] # NilSession /\ sess[w2] # NilSession
         /\ sessionID(w1) = sessionID(w2)
         /\ Unevicted(sess[w1]) /\ Unevicted(sess[w2]) )
       => sess[w1] = sess[w2]

\* ------------------------------------------------------------------ C2
\* C2: each session has at most one exchange in flight: whoever is between
\* Lock and Unlock of SendRequest owns the session's mutex, so at most one
\* worker per session is there, and at most one request line or reply line
\* of the session is outstanding on its pipes.
C2_OneInFlightPerSession ==
  /\ \A w \in Workers : InExchange(w) => mu[sess[w]] = w
  /\ \A s \in Sessions :
       /\ Cardinality({w \in Workers : InExchange(w) /\ sess[w] = s}) <= 1
       /\ Len(stdinBuf[s]) + Len(stdoutBuf[s]) <= 1
  /\ \A w \in Workers :
       (pc[w] = "done" /\ path[w] = PathMCP /\ status[w] = StatusOK) => resp[w] = w

\* a worker waits for the mutex of a session another worker has a request
\* in flight on
C2_Witness ==
  \E w1, w2 \in Workers :
    /\ w1 # w2
    /\ InFlight(w1)
    /\ pc[w2] = "lock"
    /\ sess[w2] = sess[w1]

\* ------------------------------------------------------------------ C3
\* C3: two requests carrying the same session key never have their
\* write+read cycles overlap.
C3_NoOverlapPerKey ==
  \A w1, w2 \in Workers :
    (w1 # w2 /\ InFlight(w1) /\ InFlight(w2)) => sessionID(w1) # sessionID(w2)

\* ------------------------------------------------------------------ C4
\* C4: SendRequest releases the mutex on every exit path: a session's mutex
\* is owned only by a worker that is inside SendRequest on that session, so
\* no worker whose exchange has returned (with success or with a write, read
\* or decode failure) still owns it.
C4_LockReleasedOnReturn ==
  \A s \in Sessions :
    mu[s] # NoOwner => (InExchange(mu[s]) /\ sess[mu[s]] = s)

\* an exchange has failed to decode its reply and returned, and another
\* worker has since taken the mutex of the same session
C4_Witness ==
  \E w1, w2 \in Workers :
    /\ w1 # w2
    /\ pc[w1] = "done" /\ err[w1] = "decode"
    /\ sess[w2] = sess[w1]
    /\ mu[sess[w1]] = w2

\* ------------------------------------------------------------------ C5
\* C5: a POST whose body is not valid JSON is answered 400 without touching
\* the registry: it made no lookup, created no session, started no child.
C5_BadBodyLeavesRegistryAlone ==
  \A w \in Workers :
    (pc[w] = "done" /\ status[w] = StatusBadRequest) =>
      /\ lookups[w] = 0
      /\ attempts[w] = 0
      /\ ~spawned[w]
      /\ sess[w] = NilSession

\* ------------------------------------------------------------------ C6
\* C6: a request with a method other than POST is answered 405 and does
\* nothing else: it makes no lookup, creates no session, starts no child,
\* holds no session and writes nothing to a child.
C6_NonPostLeavesRegistryAlone ==
  \A w \in Workers :
    (pc[w] # "idle" /\ method[w] # MethodPost) =>
      /\ pc[w] = "done"
      /\ status[w] = StatusMethodNotAllowed
      /\ lookups[w] = 0
      /\ attempts[w] = 0
      /\ ~spawned[w]
      /\ writes[w] = 0
      /\ sess[w] = NilSession
      /\ \A s \in Sessions : mu[s] # w

\* a non-POST request for a key that has a registered, running session was
\* answered 405
C6_Witness ==
  \E w \in Workers :
    /\ pc[w] = "done"
    /\ method[w] = "GET"
    /\ status[w] = StatusMethodNotAllowed
    /\ sessions[sessionID(w)] # NilSession
    /\ proc[sessions[sessionID(w)]] = "running"

\* ------------------------------------------------------------------ C7
\* the session exists and getOrCreateSession has returned it to its creator
Returned(s) == Created(s) /\ \A w \in Workers : ~(pc[w] = "store" /\ sess[w] = s)

\* a step of SendRequest (Lock, the write, the read)
ExchangeStep == \E w \in Workers : pc[w] \in {"lock", "write", "read"} /\ pc'[w] # pc[w]

C7_TimerState ==
  \A s \in Sessions :
    /\ armCount[s] <= 1 /\ deletes[s] <= 1 /\ closeCalls[s] <= 1
    /\ Returned(s) => armCount[s] = 1
    /\ ~Created(s) => armCount[s] = 0
    /\ deletes[s] = 1 => armCount[s] = 1
    /\ closeCalls[s] = 1 => (deletes[s] = 1 /\ sessions[skey[s]] # s)

C8_EvictedKeyRespawns ==
  \A s \in Sessions :
    deletes[s] = 1 =>
      /\ sessions[skey[s]] # s
      /\ tpc[s] = "done" => proc[s] = "reaped"
      /\ sessions[skey[s]] # NilSession => sessions[skey[s]] > evictedAt[s]

\* ------------------------------------------------------------------ C9
\* a step in which NewMCPSession fails
StartFailStep == \E w \in Workers : pc[w] = "new" /\ pc'[w] = "done"

C9_FailureState ==
  /\ \A w \in Workers :
       err[w] = "start" =>
         /\ pc[w] = "done"
         /\ status[w] = StatusInternalServerError
         /\ sess[w] = NilSession
         /\ ~spawned[w]
         /\ attempts[w] = 1
  /\ \A k \in Keys :
       sessions[k] # NilSession => (Created(sessions[k]) /\ armCount[sessions[k]] = 1)
  /\ \A s \in Sessions : armCount[s] = 1 => Created(s)
  \* a request whose lookup missed makes its own start attempt
  /\ \A w \in Workers :
       (pc[w] \notin {"idle", "new"} /\ lookups[w] = 1 /\ loaded[w] = NilSession)
         => attempts[w] = 1

\* C9: when the child cannot be started, the request is answered 500, holds
\* no session, and the failing step changes neither the registry nor any
\* timer nor any process; the registry holds only started sessions, so a
\* later request whose lookup misses makes a start attempt of its own.
C9_StartFailureRegistersNothing ==
  /\ []C9_FailureState
  /\ [][StartFailStep =>
          (sessions' = sessions /\ tpc' = tpc /\ armCount' = armCount /\ proc' = proc)]_vars

\* a start failure was answered 500, the key is still unregistered, and
\* another request of the same key is about to make its own start attempt
C9_Witness ==
  \E w1, w2 \in Workers :
    /\ w1 # w2
    /\ pc[w1] = "done" /\ err[w1] = "start" /\ status[w1] = StatusInternalServerError
    /\ sessionID(w2) = sessionID(w1)
    /\ sessions[sessionID(w1)] = NilSession
    /\ pc[w2] = "new"

\* ------------------------------------------------------------------ C10
\* C10: an exchange failure is reported with 500 and leaves the session as
\* it was: as long as the session's eviction has not run, the session is
\* still the one registered for the key, so the next request of that key
\* is given it.
C10_FailedSessionStaysRegistered ==
  \A w \in Workers :
    ExchangeFailed(w) =>
      /\ status[w] = StatusInternalServerError
      /\ Unevicted(sess[w]) => sessions[sessionID(w)] = sess[w]

\* ------------------------------------------------------------------ C11
\* C11: a relayed request whose child echoes the id is answered with a
\* response that carries the id of the request, whatever its shape (absent,
\* null, string, number), absent and null being different ids, also when
\* several requests of one key are in flight.
C11_ResponseCarriesRequestID ==
  \A w \in Workers :
    (pc[w] = "done" /\ path[w] = PathMCP /\ status[w] = StatusOK) =>
      out[w] = reqID[w]

\* ------------------------------------------------------------------ C12
\* a step of the session's Close (closing stdin, closing stdout, cmd.Wait)
CloseStep(s) == tpc[s] \in {"close_stdin", "close_stdout", "wait"} /\ tpc'[s] # tpc[s]

\* a step of the worker w
WorkerStep(w) == pc'[w] # pc[w]

ReadsMalformedLine(w) ==
  /\ pc[w] = "read"
  /\ tpc[sess[w]] \notin {"wait", "done"}
  /\ stdoutBuf[sess[w]] # <<>>
  /\ ~Head(stdoutBuf[sess[w]]).ok
  /\ WorkerStep(w)

\* the worker serves a request for /health
HealthStep(w) == pc[w] = "idle" /\ path'[w] = PathHealth

C13_State ==
  \A w \in Workers :
    /\ err[w] = "decode" =>
         (pc[w] = "done" /\ path[w] = PathMCP /\ status[w] = StatusInternalServerError)
    /\ pc[w] = "idle" => ENABLED handleHealth(w)
    /\ (pc[w] = "done" /\ path[w] = PathHealth) =>
         /\ status[w] = StatusOK /\ out[w] = HealthBody
         /\ sess[w] = NilSession /\ lookups[w] = 0 /\ attempts[w] = 0
         /\ ~spawned[w] /\ writes[w] = 0
         /\ \A s \in Sessions : mu[s] # w

\* C13: a reply line that is not valid JSON ends the exchange with a decode
\* failure answered 500; in every state, so also after such a failure, a
\* request for /health can be served, and serving it answers 200 with the
\* body OK and leaves the registry, every session and every process as they
\* are, with no lookup, no start and no write made.
C13_MalformedReplyThenHealth ==
  /\ []C13_State
  /\ [][\A w \in Workers :
          ReadsMalformedLine(w) =>
            (pc'[w] = "done" /\ err'[w] = "decode" /\ status'[w] = StatusInternalServerError)]_vars
  /\ [][\A w \in Workers :
          HealthStep(w) =>
            /\ pc'[w] = "done" /\ status'[w] = StatusOK /\ out'[w] = HealthBody
            /\ UNCHANGED <<sess, sessions, svars, hvars>>]_vars

\* a request failed on a malformed reply line with 500, and a request for
\* /health was answered 200 OK while the session of the failure is registered
C13_Witness ==
  \E w1, w2 \in Workers :
    /\ pc[w1] = "done" /\ err[w1] = "decode" /\ status[w1] = StatusInternalServerError
    /\ sessions[sessionID(w1)] = sess[w1]
    /\ pc[w2] = "done" /\ path[w2] = PathHealth
    /\ status[w2] = StatusOK /\ out[w2] = HealthBody

\* ------------------------------------------------------------------ C14
\* C14: nothing is retried: a request makes at most one lookup, at most one
\* start attempt and at most one write of a request line; a start, write,
\* read or decode failure ends the request with 500, the failed operation
\* having been tried once and nothing tried after it; and the handler, once
\* it has answered, does nothing more.
C14_State ==
  \A w \in Workers :
    /\ lookups[w] <= 1 /\ attempts[w] <= 1 /\ writes[w] <= 1
    /\ err[w] \in {"start", "write", "read", "decode"} =>
         (pc[w] = "done" /\ status[w] = StatusInternalServerError)
    /\ err[w] = "start" => (attempts[w] = 1 /\ ~spawned[w] /\ writes[w] = 0)
    /\ err[w] = "write" => writes[w] = 0
    /\ err[w] \in {"read", "decode"} => writes[w] = 1

C14_NothingRetried ==
  /\ []C14_State
  /\ [][\A w \in Workers :
          pc[w] = "done" =>
            /\ pc'[w] = "done" /\ status'[w] = status[w] /\ err'[w] = err[w]
            /\ attempts'[w] = attempts[w] /\ writes'[w] = writes[w]]_vars

\* a request started a child, wrote its line once, failed to read the
\* reply and was answered 500
C14_Witness ==
  \E w \in Workers :
    /\ pc[w] = "done" /\ err[w] = "read" /\ status[w] = StatusInternalServerError
    /\ attempts[w] = 1 /\ spawned[w] /\ writes[w] = 1

\* ------------------------------------------------------------------ C15
\* Close is called on the session s in this step
CloseCalled(s) == closeCalls'[s] # closeCalls[s]

\* C15: Close is called at most once on every session, and only by the
\* session's own cleanup goroutine, which is started once and calls it once,
\* after its sleep and its Delete: no step of a request and no step of
\* another session's goroutine calls it.
C15_ClosedAtMostOnce ==
  /\ [](\A s \in Sessions : closeCalls[s] <= 1 /\ closeCalls[s] <= armCount[s])
  /\ [][\A s \in Sessions :
          CloseCalled(s) =>
            /\ tpc[s] = "close_stdin" /\ tpc'[s] = "close_stdout"
            /\ closeCalls[s] = 0 /\ armCount[s] = 1 /\ deletes[s] = 1
            /\ \A w \in Workers : ~WorkerStep(w)
            /\ \A s2 \in Sessions \ {s} : tpc'[s2] = tpc[s2]]_vars

\* two sessions created for one key by racing requests have each been
\* closed, once, by their own cleanup goroutine
C15_Witness ==
  \E s1, s2 \in Sessions :
    /\ s1 # s2
    /\ skey[s1] = skey[s2]
    /\ tpc[s1] = "done" /\ closeCalls[s1] = 1
    /\ tpc[s2] = "done" /\ closeCalls[s2] = 1

\* ------------------------------------------------------------------ C16
\* the cleanup goroutine of s does its sessions.Delete in this step
DeleteStep(s) == tpc[s] = "sleep" /\ tpc'[s] = "close_stdin"

\* C16: the timer of a session removes a registry entry only if the entry
\* maps to that session: a step in which the cleanup goroutine of s deletes
\* changes no key that was mapped to another session.
C16_TimerRemovesOnlyOwnEntry ==
  [][\A s \in Sessions :
       DeleteStep(s) =>
         \A k \in Keys : sessions'[k] # sessions[k] => sessions[k] = s]_vars

\* ------------------------------------------------------------------ C17
\* C17: every started session is eventually closed by its own cleanup
\* goroutine, its pipes closed and its process waited for, also when its
\* registry entry was overwritten or deleted by another session's goroutine:
\* no started child is left running forever.
C17_EverySessionClosed ==
  \A s \in Sessions :
    Created(s) ~> (tpc[s] = "done" /\ closeCalls[s] = 1 /\ proc[s] = "reaped")

\* ------------------------------------------------------------------ C18
\* the worker's sessions.Load returns a session in this step
LoadHit(w) == pc[w] = "idle" /\ lookups'[w] = 1 /\ loaded'[w] # NilSession

C18_State ==
  /\ \A k \in Keys :
       sessions[k] # NilSession =>
         /\ closeCalls[sessions[k]] = 0
         /\ tpc[sessions[k]] = "sleep"
         /\ skey[sessions[k]] = k
  \* a request holds a session whose Close has begun only if it created it
  \* or its lookup returned it
  /\ \A w \in Workers :
       (sess[w] # NilSession /\ closeCalls[sess[w]] = 1) =>
         (spawned[w] \/ loaded[w] = sess[w])

\* C18: the registry maps no key to a session whose Close has begun: a
\* session is put into the registry once, when it is created and before
\* its cleanup goroutine starts, the goroutine deletes the key before it
\* calls Close, and a lookup returns only a session on which Close has not
\* been called.
C18_RegistryHoldsNoClosedSession ==
  /\ []C18_State
  /\ [][\A k \in Keys :
          (sessions'[k] # sessions[k] /\ sessions'[k] # NilSession) =>
            /\ armCount[sessions'[k]] = 0 /\ armCount'[sessions'[k]] = 1
            /\ closeCalls'[sessions'[k]] = 0]_vars
  /\ [][\A w \in Workers :
          LoadHit(w) => (closeCalls'[loaded'[w]] = 0 /\ sessions[sessionID(w)'] = loaded'[w])]_vars

\* Close has begun on a session that the registry no longer holds, while a
\* request whose lookup returned it before the eviction is about to use it
C18_Witness ==
  \E s \in Sessions, w \in Workers :
    /\ closeCalls[s] = 1
    /\ sessions[skey[s]] = NilSession
    /\ loaded[w] = s /\ sess[w] = s
    /\ pc[w] \in {"lock", "write", "read"}

\* ------------------------------------------------------------------ C19
\* the worker is inside SendRequest: waiting for the mutex, or holding it
InSendRequest(w) == pc[w] \in {"lock", "write", "read"}

\* the worker waits for a reply line that is not there, from a running child
ReadBlocked(w) ==
  /\ pc[w] = "read"
  /\ stdoutBuf[sess[w]] = <<>>
  /\ proc[sess[w]] = "running"

\* C19: every SendRequest call returns (under LiveSpec), whatever the child
\* does: a read that waits for a child that does not reply ends only when
\* Close has closed stdout, with a read error; a caller that gets the mutex
\* after Close closed stdin fails its write; and each of them gives the
\* mutex back, so that no worker stays inside SendRequest.
C19_SendRequestReturns ==
  /\ \A w \in Workers : InSendRequest(w) ~> (pc[w] = "done" /\ \A s \in Sessions : mu[s] # w)
  /\ [][\A w \in Workers :
          (ReadBlocked(w) /\ WorkerStep(w)) =>
            /\ tpc[sess[w]] \in {"wait", "done"}
            /\ pc'[w] = "done" /\ err'[w] = "read"
            /\ mu'[sess[w]] = NoOwner]_vars
  /\ [][\A w \in Workers :
          (pc[w] = "lock" /\ tpc[sess[w]] \in {"close_stdout", "wait", "done"} /\ WorkerStep(w)) =>
            (pc'[w] = "write" /\ tpc'[sess[w]] # "sleep")]_vars
  /\ [](\A w \in Workers :
         (pc[w] = "done" /\ err[w] = "write") =>
           (writes[w] = 0 /\ status[w] = StatusInternalServerError))

\* the child of a session never read the request written to it: the
\* exchange ended with a read error when Close closed stdout, and a request
\* queued behind it on the same session then failed its write; the child
\* is still running
C19_Witness ==
  \E w1, w2 \in Workers :
    /\ w1 # w2
    /\ sess[w1] = sess[w2] /\ sess[w1] # NilSession
    /\ pc[w1] = "done" /\ err[w1] = "read" /\ writes[w1] = 1
    /\ pc[w2] = "done" /\ err[w2] = "write"
    /\ proc[sess[w1]] = "running"
    /\ Len(stdinBuf[sess[w1]]) = 1 /\ stdoutBuf[sess[w1]] = <<>>
    /\ mu[sess[w1]] = NoOwner

====
